---------------------------- MODULE Spec2Model ----------------------------
(***************************************************************************)
(* A model of src/app.py, the VCMT Template Agent: the text utilities, the *)
(* row writer, the unit extractor, the evidence matcher and the Streamlit  *)
(* script pass (and its reruns) that loads                                 *)
(* a template, validates the selected tables, copies the document and      *)
(* inserts the confirmed Part 1/2/3 rows into the copy.                    *)
(*                                                                         *)
(* Text is a sequence of characters.  A character is a one-character       *)
(* string; a multi-character string stands for a run of non-whitespace     *)
(* text that no operation of the program looks into (a word, a literal     *)
(* sentence of a statement template).                                      *)
(***************************************************************************)
EXTENDS Integers, Sequences, FiniteSets, TLC

VARIABLES
    pc,               \* position of the script pass
    now,              \* datetime.datetime.now().year
    uploaded,         \* the uploaded template (parsed form of the bytes)
    heap,             \* document objects: reference -> list of tables
    doc,              \* reference of the loaded (browsing) document
    export_doc,       \* reference of the document the write path mutates
    part_idx,         \* <<part1_idx, part2_idx, part3_idx>>
    validated_codes,  \* the unit codes the pass loops over
    unit_i,           \* position of the unit loop (1-based)
    extracted_units,  \* extract_units_from_doc(doc)
    part1_rows,       \* part1_rows_preview of the current unit
    confirm_p1,       \* the Part 1 confirmation checkbox of the unit
    ticked,           \* the confirmation checkboxes ticked in this pass: <<unit, part>>
    row_i,            \* position of the Part 1 write loop (1-based)
    last,             \* the last entry the write block handled, and how
    download,         \* tables of the document offered for download
    inserted,         \* the rows the write block inserted in this pass, in order
    exported,         \* whether an earlier pass offered a download with inserted rows
    fin,              \* input of the function under test
    fout              \* its result

vars == <<pc, now, uploaded, heap, doc, export_doc, part_idx, validated_codes,
          unit_i, extracted_units, part1_rows, confirm_p1, ticked, row_i, last,
          download, inserted, exported, fin, fout>>

appvars == <<uploaded, heap, doc, export_doc, part_idx, validated_codes,
             unit_i, extracted_units, part1_rows, confirm_p1, ticked, row_i, last,
             download, inserted, exported>>

(***************************************************************************)
(* Bounds of the model.                                                    *)
(***************************************************************************)
MaxDataRows == 2      \* data rows of a template table
MaxPrior == 2         \* rows of the Part 1 data editor
MaxMaskLen == 3       \* length of the free evidence IDs tried on the masker
MaxYearLen == 5       \* length of the strings tried on the year validator
MaxParas == 4         \* paragraphs of the documents tried on the extractor
NowYear == 2019       \* the calendar year the passes run in
MaxTargets == 3       \* target phrases tried on the evidence matcher
MaxItemsTried == 2    \* the largest max_items tried on the evidence matcher

(***************************************************************************)
(* Sequence helpers.                                                       *)
(***************************************************************************)
SeqsUpTo(S, n) == UNION {[1..k -> S] : k \in 0..n}

Min(a, b) == IF a < b THEN a ELSE b

Max(a, b) == IF a > b THEN a ELSE b

\* Python's s[a:b] with 0 <= a, on a 1-based sequence
Slice(s, a, b) == SubSeq(s, a + 1, Min(b, Len(s)))

Repeat(c, n) == [i \in 1..n |-> c]

Last4(s) == SubSeq(s, Len(s) - 3, Len(s))

(***************************************************************************)
(* normalise_space: re.sub(r"\s+", " ", s or "").strip()                   *)
(***************************************************************************)
IsSpace(c) == c \in {" ", "\n", "\t"}

RECURSIVE LStrip(_)
LStrip(s) == IF s # <<>> /\ IsSpace(Head(s)) THEN LStrip(Tail(s)) ELSE s

RECURSIVE RStrip(_)
RStrip(s) ==
    IF s # <<>> /\ IsSpace(s[Len(s)]) THEN RStrip(SubSeq(s, 1, Len(s) - 1)) ELSE s

Strip(s) == RStrip(LStrip(s))

RECURSIVE CollapseSpace(_)
CollapseSpace(s) ==
    IF s = <<>> THEN <<>>
    ELSE IF IsSpace(Head(s)) THEN <<" ">> \o CollapseSpace(LStrip(s))
    ELSE <<Head(s)>> \o CollapseSpace(Tail(s))

normalise_space(s) == Strip(CollapseSpace(s))

\* Python truthiness of a str
Truthy(s) == s # <<>>

(***************************************************************************)
(* mask_evidence_id                                                        *)
(***************************************************************************)
Pending == <<"P", "e", "n", "d", "i", "n", "g">>

Upper == {"P", "E", "N", "D", "I", "G"}

LowerOf == [c \in Upper |->
              CASE c = "P" -> "p" [] c = "E" -> "e" [] c = "N" -> "n"
                [] c = "D" -> "d" [] c = "I" -> "i" [] c = "G" -> "g"]

LowerChar(c) == IF c \in Upper THEN LowerOf[c] ELSE c

lower(s) == [i \in 1..Len(s) |-> LowerChar(s[i])]

\* a masker that knows the sentinel in lower case only
mask_evidence_id_case_sensitive(eid) ==
    IF ~Truthy(eid) \/ eid = lower(Pending) THEN Pending
    ELSE IF Len(eid) <= 4 THEN Repeat("*", Len(eid))
    ELSE Repeat("*", Len(eid) - 4) \o Last4(eid)

mask_evidence_id(eid) ==
    IF ~Truthy(eid) \/ lower(eid) = lower(Pending) THEN Pending
    ELSE IF Len(eid) <= 4 THEN Repeat("*", Len(eid))
    ELSE Repeat("*", Len(eid) - 4) \o Last4(eid)

(***************************************************************************)
(* validate_year.  IntParse is Python's int(str): surrounding whitespace   *)
(* is stripped, one sign is allowed, digits may be grouped by single       *)
(* underscores; anything else raises ValueError.                           *)
(***************************************************************************)
Digits == {"0", "1", "2", "3", "4", "5", "6", "7", "8", "9"}

DigitVal(c) ==
    CASE c = "0" -> 0 [] c = "1" -> 1 [] c = "2" -> 2 [] c = "3" -> 3
      [] c = "4" -> 4 [] c = "5" -> 5 [] c = "6" -> 6 [] c = "7" -> 7
      [] c = "8" -> 8 [] c = "9" -> 9

\* digits with single underscores between them
IsDigitGroup(s) ==
    /\ s # <<>>
    /\ \A i \in 1..Len(s) : s[i] \in Digits \/ s[i] = "_"
    /\ s[1] # "_" /\ s[Len(s)] # "_"
    /\ \A i \in 1..(Len(s) - 1) : ~(s[i] = "_" /\ s[i + 1] = "_")

RECURSIVE DigitsValue(_, _)
DigitsValue(s, acc) ==
    IF s = <<>> THEN acc
    ELSE IF Head(s) = "_" THEN DigitsValue(Tail(s), acc)
    ELSE DigitsValue(Tail(s), 10 * acc + DigitVal(Head(s)))

IntParse(y) ==
    LET t == Strip(y)
        signed == t # <<>> /\ t[1] \in {"+", "-"}
        body == IF signed THEN Tail(t) ELSE t
    IN  IF IsDigitGroup(body)
        THEN [ok |-> TRUE,
              val |-> IF signed /\ t[1] = "-" THEN 0 - DigitsValue(body, 0)
                      ELSE DigitsValue(body, 0)]
        ELSE [ok |-> FALSE, val |-> 0]

MinYear == 1900

\* the try body: what it returns, or that it raised
validate_year_try(y, nowYear) ==
    LET p == IntParse(y)
    IN  IF ~p.ok THEN [raised |-> TRUE, value |-> FALSE]
        ELSE [raised |-> FALSE,
              value |-> Len(y) = 4 /\ MinYear <= p.val /\ p.val <= nowYear]

\* a validator without the length test
validate_year_nolen(y, nowYear) ==
    LET p == IntParse(y)
    IN  [raised |-> FALSE, value |-> p.ok /\ MinYear <= p.val /\ p.val <= nowYear]

\* except Exception: return False
validate_year(y, nowYear) ==
    LET r == validate_year_try(y, nowYear)
    IN  IF r.raised THEN [raised |-> FALSE, value |-> FALSE] ELSE r


(***************************************************************************)
(* extract_units_from_doc.  A paragraph is the sequence of the words of    *)
(* its normalised text (normalise_space leaves exactly the words, joined   *)
(* by single spaces); the empty paragraph is <<>>.  A code candidate is a  *)
(* word the pattern \b[A-Z]{2,}[A-Z0-9]{2,}\b matches, and "code in p" is  *)
(* read on whole words.                                                    *)
(***************************************************************************)
WindowBefore == 10

WindowAfter == 40

\* the words of the vocabulary the code pattern matches, in sorted() order
SortedCodes == <<"BSBWHS311", "TAFE">>

CodeWords == {SortedCodes[i] : i \in 1..Len(SortedCodes)}

HasWord(p, w) == \E i \in 1..Len(p) : p[i] = w

\* paras: the non-empty normalised paragraphs
NonEmptyParas(ps) == SelectSeq(ps, LAMBDA p : p # <<>>)

\* sorted(set(re.findall(...)))
unit_codes_of(paras) ==
    SelectSeq(SortedCodes, LAMBDA c : \E i \in 1..Len(paras) : HasWord(paras[i], c))

\* idxs[0], 0-based; -1 when idxs is empty
FirstIdx(paras, code) ==
    IF \E i \in 1..Len(paras) : HasWord(paras[i], code)
    THEN (CHOOSE i \in 1..Len(paras) :
            /\ HasWord(paras[i], code)
            /\ \A j \in 1..(i - 1) : ~HasWord(paras[j], code)) - 1
    ELSE 0 - 1

\* paras[max(0, idx-10): idx+40]
WindowOf(paras, idx) == Slice(paras, Max(0, idx - WindowBefore), idx + WindowAfter)

Headings == {<<"application", "statement">>, <<"performance", "evidence">>,
             <<"performance", "criteria">>}

LowerWord(w) ==
    CASE w = "Application" -> "application" [] w = "Statement" -> "statement"
      [] w = "Performance" -> "performance" [] w = "Evidence" -> "evidence"
      [] w = "Criteria" -> "criteria" [] w = "PERFORMANCE" -> "performance"
      [] w = "EVIDENCE" -> "evidence" [] OTHER -> w

\* re.search(rf"^{heading}\b", w, flags=re.IGNORECASE)
StartsWithHeading(line, heading) ==
    /\ Len(line) >= 2
    /\ <<LowerWord(line[1]), LowerWord(line[2])>> = heading

IsAnyHeading(line) == \E h \in Headings : StartsWithHeading(line, h)

\* the bullet glyph is written "*" here
Markers == {"-", "*"}

\* re.match(r"^[bullet\-\*]\s+", line) or len(line.split()) > 3
IsContent(line) == (Len(line) >= 2 /\ line[1] \in Markers) \/ Len(line) > 3

\* line.lstrip("bullet-* ").strip()
RECURSIVE LStripMarkers(_)
LStripMarkers(line) ==
    IF line # <<>> /\ Head(line) \in Markers THEN LStripMarkers(Tail(line)) ELSE line

\* the loop of grab_section from 0-based j
RECURSIVE Collect(_, _)
Collect(win, j) ==
    IF j >= Len(win) THEN <<>>
    ELSE IF IsAnyHeading(win[j + 1]) THEN <<>>
    ELSE IF IsContent(win[j + 1])
         THEN <<LStripMarkers(win[j + 1])>> \o Collect(win, j + 1)
         ELSE Collect(win, j + 1)

HeadingIdxs(win, heading) == {i \in 1..Len(win) : StartsWithHeading(win[i], heading)}

SetMin(S) == CHOOSE x \in S : \A y \in S : x <= y

\* a grab_section whose search for the heading defaults to the window's start
grab_section_default0(win, heading) ==
    IF HeadingIdxs(win, heading) = {} THEN Collect(win, 0)
    ELSE Collect(win, SetMin(HeadingIdxs(win, heading)))

grab_section(win, heading) ==
    IF HeadingIdxs(win, heading) = {} THEN <<>>
    ELSE Collect(win, SetMin(HeadingIdxs(win, heading)))

\* " ".join(items), the separator kept as the token " "
RECURSIVE JoinSp(_)
JoinSp(items) ==
    IF items = <<>> THEN <<>>
    ELSE IF Len(items) = 1 THEN items[1]
    ELSE items[1] \o <<" ">> \o JoinSp(Tail(items))

Dashes == {"-", ":"}

\* re.search(rf"{code}\s*[-:]\s*(.+)", paras[idx]), else the next paragraph
\* when it has more than two words
unit_name_of(paras, idx, code) ==
    LET line == paras[idx + 1]
        ks == {k \in 1..Len(line) :
                 line[k] = code /\ k + 2 <= Len(line) /\ line[k + 1] \in Dashes}
    IN  IF ks # {} THEN SubSeq(line, SetMin(ks) + 2, Len(line))
        ELSE IF idx + 1 < Len(paras) /\ Len(paras[idx + 2]) > 2 THEN paras[idx + 2]
        ELSE <<>>

\* the three grab_section calls of one code
unit_sections(paras, code) ==
    LET window == WindowOf(paras, FirstIdx(paras, code))
    IN  [app_list |-> grab_section(window, <<"application", "statement">>),
         perf_evd |-> grab_section(window, <<"performance", "evidence">>),
         perf_crit |-> grab_section(window, <<"performance", "criteria">>)]

\* units[code] = {...}
unit_record(paras, code) ==
    LET sec == unit_sections(paras, code)
    IN  [code |-> code,
         name |-> unit_name_of(paras, FirstIdx(paras, code), code),
         application_statement |-> JoinSp(sec.app_list),
         performance_evidence |-> sec.perf_evd,
         performance_criteria |-> sec.perf_crit]

\* if application or perf_evd or perf_crit
unit_kept(paras, code) ==
    LET sec == unit_sections(paras, code)
    IN  sec.app_list # <<>> \/ sec.perf_evd # <<>> \/ sec.perf_crit # <<>>

extract_units_from_doc(doc_paras) ==
    LET paras == NonEmptyParas(doc_paras)
        codes == unit_codes_of(paras)
        kept == {c \in CodeWords : HasWord(codes, c) /\ FirstIdx(paras, c) >= 0
                                   /\ unit_kept(paras, c)}
    IN  [c \in kept |-> unit_record(paras, c)]

(***************************************************************************)
(* Tables.  A table is the sequence of its rows, a row the sequence of its *)
(* cells' text; python-docx row i is element i + 1.                        *)
(***************************************************************************)
NoneIdx == 0 - 1

\* list_tables_info: n_cols is len(t.columns) if t.rows else 0
n_cols(t) == IF Len(t) > 0 THEN Len(t[1]) ELSE 0

tables_info(tables) == [i \in 1..Len(tables) |->
                          [index |-> i - 1, n_rows |-> Len(tables[i]),
                           n_cols |-> n_cols(tables[i]),
                           header |-> IF Len(tables[i]) > 0
                                      THEN [j \in 1..Len(tables[i][1]) |->
                                              normalise_space(tables[i][1][j])]
                                      ELSE <<>>]]

\* all(not normalise_space(c.text) for c in row.cells)
RowIsBlank(row) == \A j \in 1..Len(row) : ~Truthy(normalise_space(row[j]))

RECURSIVE FirstEmptyFrom(_, _)
FirstEmptyFrom(table, i) ==
    IF i >= Len(table) THEN NoneIdx
    ELSE IF RowIsBlank(table[i + 1]) THEN i
    ELSE FirstEmptyFrom(table, i + 1)

\* a search that starts at the header row
first_empty_row_index_from0(table) == FirstEmptyFrom(table, 0)

first_empty_row_index(table) == FirstEmptyFrom(table, 1)

\* table.add_row(): a row of empty cells, one per column
add_row(table) == Append(table, [j \in 1..n_cols(table) |-> <<>>])

\* a writer that takes the last row when no row index is given
write_row_to_table_noappend(table, values, row_index) ==
    LET r == IF row_index = NoneIdx THEN Len(table) ELSE row_index + 1
    IN  [table EXCEPT ![r] = [j \in 1..Len(table[r]) |->
                                IF j <= Len(values) THEN values[j] ELSE table[r][j]]]

write_row_to_table(table, values, row_index) ==
    LET t == IF row_index = NoneIdx THEN add_row(table) ELSE table
        r == IF row_index = NoneIdx THEN Len(t) ELSE row_index + 1
    IN  [t EXCEPT ![r] = [j \in 1..Len(t[r]) |->
                            IF j <= Len(values) THEN values[j] ELSE t[r][j]]]

(***************************************************************************)
(* Statement composer.                                                     *)
(***************************************************************************)
RECURSIVE RStripDots(_)
RStripDots(s) ==
    IF s # <<>> /\ s[Len(s)] = "." THEN RStripDots(SubSeq(s, 1, Len(s) - 1)) ELSE s

RECURSIVE BulletLines(_)
BulletLines(bs) ==
    IF bs = <<>> THEN <<>>
    ELSE <<"*", " ">> \o bs[1]
         \o (IF Len(bs) > 1 THEN <<"\n">> \o BulletLines(Tail(bs)) ELSE <<>>)

construct_part1_statement(application_statement, bullet_list) ==
    <<"Within this qualification, I was required to demonstrate competency in the skills and knowledge required to", " ">>
    \o RStripDots(Strip(application_statement))
    \o <<".", "\n", "Specifically relevant were the following course components:", "\n">>
    \o (IF bullet_list # <<>> THEN BulletLines(bullet_list) ELSE <<"*", " ">>)

construct_part2_statement(unit_code, unit_name, bullets) ==
    <<"Key responsibilities and tasks relevant to the performance criteria for", " ",
      unit_code, " ">> \o unit_name \o <<":", "\n">> \o BulletLines(bullets)

construct_part3_statement(unit_code, unit_name, bullets) ==
    <<"This professional development enhanced my ability to meet the performance criteria for",
      " ", unit_code, " ">> \o unit_name
    \o <<".", " ", "Specifically, it:", "\n">> \o BulletLines(bullets)

\* [normalise_space(x["Bullet"]) for x in edit if normalise_space(x.get("Bullet", ""))]
RECURSIVE BulletsOf(_)
BulletsOf(edit) ==
    IF edit = <<>> THEN <<>>
    ELSE IF Truthy(normalise_space(Head(edit)))
         THEN <<normalise_space(Head(edit))>> \o BulletsOf(Tail(edit))
         ELSE BulletsOf(Tail(edit))

(***************************************************************************)
(* The templates an operator may upload.                                   *)
(***************************************************************************)
HeaderTexts == <<<<"Qualification">>, <<"Year">>, <<"Statement">>, <<"Evidence">>,
                 <<"Notes">>>>

HeaderRow(kind, n) ==
    [j \in 1..n |-> IF kind = "named" THEN HeaderTexts[j] ELSE <<>>]

RowKinds == {"blank", "filled"}

\* a blank data row has empty cells or, at an even position, a cell of
\* white space only; a filled one has text in its second cell
DataRow(kind, n, i) ==
    [j \in 1..n |->
        IF j = 1 /\ kind = "blank" /\ i % 2 = 0 THEN <<" ", "\n">>
        ELSE IF j = 2 /\ kind = "filled" THEN <<"2001">>
        ELSE <<>>]

Tbl(hdr, n, kinds) ==
    <<HeaderRow(hdr, n)>> \o [i \in 1..Len(kinds) |-> DataRow(kinds[i], n, i)]

TemplateParas ==
    << <<"Unit", "BSBWHS311", "-", "Work", "Safely">>,
       <<"Application", "Statement">>,
       <<"-", "apply", "safe", "work", "practices", ".">>,
       <<"Performance", "Criteria">>,
       <<"-", "identify", "hazards">> >>

TemplateTables ==
    {<<Tbl("named", 4, ks)>> : ks \in SeqsUpTo(RowKinds, MaxDataRows)}
    \cup {<<Tbl("empty", 4, <<>>)>>, <<Tbl("empty", 4, <<"filled">>)>>,
          <<Tbl("named", 5, <<"blank">>)>>, <<Tbl("named", 3, <<"blank">>)>>,
          << <<>> >>, <<>>,
          <<Tbl("named", 4, <<"blank">>), Tbl("named", 5, <<"filled">>),
            Tbl("named", 3, <<"blank">>)>>}

Templates == {[present |-> TRUE, tables |-> t, paras |-> TemplateParas] :
                t \in TemplateTables}

NoUpload == [present |-> FALSE, tables |-> <<>>, paras |-> <<>>]

(***************************************************************************)
(* The operator's inputs.                                                  *)
(***************************************************************************)
Y2019 == <<"2", "0", "1", "9">>

Y1899 == <<"1", "8", "9", "9">>

E123456 == <<"E", "1", "2", "3", "4", "5", "6">>

\* rows of the Part 1 data editor
PriorItems ==
    {[q |-> <<" ", "Cert", " ", " ", "III">>, year |-> Y2019, eid |-> E123456],
     [q |-> <<"Cert", " ", "III">>, year |-> Y1899, eid |-> <<>>],
     [q |-> <<"Cert", " ", "IV">>, year |-> lower(Pending), eid |-> <<" ">>],
     [q |-> <<" ">>, year |-> <<>>, eid |-> E123456]}

\* the application statement and the overlap bullets as edited
StatementInputs ==
    {[app_stmt |-> <<>>, bullets |-> << <<>> >>],
     [app_stmt |-> <<" ", "apply", " ", "safe", " ", "work", " ", "practices", ".">>,
      bullets |-> << <<"identify", " ", " ", "hazards">>, <<" ">> >>]}

\* role title, years in role, responsibility bullets, evidence ID
Part2Inputs ==
    {[title |-> <<"Trainer">>, period |-> <<"5">>, bullets |-> << <<"identify", " ", "hazards">> >>,
      eid |-> Pending],
     [title |-> <<" ">>, period |-> <<"5">>, bullets |-> << <<"identify", " ", "hazards">> >>,
      eid |-> E123456],
     [title |-> <<>>, period |-> <<"5">>, bullets |-> << <<"identify", " ", "hazards">> >>,
      eid |-> Pending],
     [title |-> <<"Trainer">>, period |-> <<"5">>, bullets |-> << <<" ">> >>,
      eid |-> Pending]}

\* PD title, PD year, alignment bullets, evidence ID
Part3Inputs ==
    {[title |-> <<"WHS", " ", "course">>, period |-> Y2019,
      bullets |-> << <<"identify", " ", "hazards">> >>, eid |-> E123456],
     [title |-> <<"WHS", " ", "course">>, period |-> Y1899,
      bullets |-> << <<"identify", " ", "hazards">> >>, eid |-> Pending],
     [title |-> <<"WHS", " ", "course">>, period |-> <<" ">>,
      bullets |-> << <<"identify", " ", "hazards">> >>, eid |-> Pending],
     [title |-> <<"WHS", " ", "course">>, period |-> <<>>,
      bullets |-> << <<"identify", " ", "hazards">> >>, eid |-> Pending],
     [title |-> <<"WHS", " ", "course">>, period |-> Y2019,
      bullets |-> <<>>, eid |-> Pending]}

ManualCodes == {"SITXWHS005"}

LastNames == {<<>>, <<"Nguyen">>}

(***************************************************************************)
(* The script pass.                                                        *)
(***************************************************************************)
DocRef == 1

CopyRef == 2

Refs == {DocRef, CopyRef}

NoLast == [part |-> 0, unit |-> "", confirmed |-> FALSE, values |-> <<>>,
           written |-> FALSE, warned |-> FALSE, idx |-> NoneIdx, tbl |-> 0,
           before |-> <<>>]

NoDownload == [ready |-> FALSE, tables |-> <<>>]

\* words joined by single spaces, as text
RECURSIVE WordsText(_)
WordsText(ws) ==
    IF ws = <<>> THEN <<>>
    ELSE IF Len(ws) = 1 THEN <<ws[1]>>
    ELSE <<ws[1], " ">> \o WordsText(Tail(ws))

MinCols == 4

\* a column check of the Part 1 table alone
StructureOkFirstOnly(info, idxs) == info[idxs[1] + 1].n_cols >= MinCols

\* not any(tables_info[i]["n_cols"] < 4 for i in [part1_idx, part2_idx, part3_idx])
StructureOk(info, idxs) ==
    ~\E k \in 1..Len(idxs) : info[idxs[k] + 1].n_cols < MinCols

\* copy.deepcopy(doc): the reference of a new, independent document object
\* an assignment instead of a copy
SameObject(d) == d

deepcopy(d) == CopyRef

\* a year that draws st.warning
YearWarned(year, nowYear) ==
    /\ Truthy(year)
    /\ lower(year) # lower(Pending)
    /\ ~validate_year(year, nowYear).value

\* one element of part1_rows_preview
Part1Preview(item, app_stmt, bullets, nowYear) ==
    [col1 |-> normalise_space(item.q),
     col2 |-> normalise_space(item.year),
     col3 |-> construct_part1_statement(app_stmt, bullets),
     col4 |-> IF Truthy(normalise_space(item.eid))
              THEN normalise_space(item.eid) ELSE Pending,
     warn |-> YearWarned(normalise_space(item.year), nowYear)]

\* a completeness test of the first column alone
FirstColumnOk(values) == Truthy(values[1])

\* not (not col1 or not col2 or not col3 or not col4)
RowComplete(values) == \A j \in 1..4 : Truthy(values[j])

\* a write block that ignores the checkbox
Ticked(box) == TRUE

\* if confirm_pN:
Confirmed(box) == box

\* an insert that writes the entry into two rows
InsertRowTwice(table, values) ==
    LET once == write_row_to_table(table, values, first_empty_row_index(table))
    IN  write_row_to_table(once, values, first_empty_row_index(once))

\* idx_empty = first_empty_row_index(t); write_row_to_table(t, values, row_index=idx_empty)
InsertRow(table, values) ==
    write_row_to_table(table, values, first_empty_row_index(table))

Init ==
    /\ pc = "start"
    /\ now = NowYear
    /\ uploaded = NoUpload
    /\ heap = [r \in Refs |-> <<>>]
    /\ doc = 0
    /\ export_doc = 0
    /\ part_idx = <<0, 0, 0>>
    /\ validated_codes = <<>>
    /\ unit_i = 0
    /\ extracted_units = <<>>
    /\ part1_rows = <<>>
    /\ confirm_p1 = FALSE
    /\ ticked = {}
    /\ row_i = 0
    /\ last = NoLast
    /\ download = NoDownload
    /\ inserted = <<>>
    /\ exported = FALSE
    /\ fin = <<>>
    /\ fout = <<>>

\* st.file_uploader: the operator uploads a template
Upload(t) ==
    /\ UNCHANGED <<inserted, exported>>
    /\ pc = "start"
    /\ uploaded' = t
    /\ UNCHANGED <<pc, now, heap, doc, export_doc, part_idx, validated_codes, unit_i,
                   extracted_units, part1_rows, confirm_p1, ticked, row_i, last, download, fin, fout>>

\* doc = load_docx(uploaded.read()); tables_info = list_tables_info(doc)
Load ==
    /\ UNCHANGED <<inserted, exported>>
    /\ pc = "start"
    /\ uploaded.present
    /\ doc' = DocRef
    /\ heap' = [heap EXCEPT ![DocRef] = uploaded.tables]
    /\ pc' = IF tables_info(uploaded.tables) = <<>> THEN "stopped" ELSE "tables"
    /\ UNCHANGED <<now, uploaded, export_doc, part_idx, validated_codes, unit_i,
                   extracted_units, part1_rows, confirm_p1, ticked, row_i, last, download, fin, fout>>

\* the three selectboxes and the column check
SelectTables(p1, p2, p3) ==
    /\ UNCHANGED <<inserted, exported>>
    /\ pc = "tables"
    /\ part_idx' = <<p1, p2, p3>>
    /\ pc' = IF StructureOk(tables_info(heap[doc]), <<p1, p2, p3>>)
             THEN "units" ELSE "stopped"
    /\ UNCHANGED <<now, uploaded, heap, doc, export_doc, validated_codes, unit_i,
                   extracted_units, part1_rows, confirm_p1, ticked, row_i, last, download, fin, fout>>

\* extraction, the multiselect and the manual codes, and their validation
SelectUnits(user_unit_codes) ==
    /\ UNCHANGED <<inserted, exported>>
    /\ pc = "units"
    /\ LET validated == SelectSeq(user_unit_codes,
                            LAMBDA c : \E i \in 1..Len(uploaded.paras) :
                                          HasWord(uploaded.paras[i], c))
       IN  /\ validated_codes' = validated
           /\ pc' = IF validated = <<>> THEN "stopped" ELSE "learner"
    /\ extracted_units' = extract_units_from_doc(uploaded.paras)
    /\ UNCHANGED <<now, uploaded, heap, doc, export_doc, part_idx, unit_i,
                   part1_rows, confirm_p1, ticked, row_i, last, download, fin, fout>>

\* the learner's last name, then export_doc = copy.deepcopy(doc)
CopyDoc(last_name) ==
    /\ UNCHANGED <<inserted, exported>>
    /\ pc = "learner"
    /\ IF ~Truthy(last_name)
       THEN /\ pc' = "stopped"
            /\ UNCHANGED <<export_doc, heap, unit_i>>
       ELSE /\ export_doc' = deepcopy(doc)
            /\ heap' = [heap EXCEPT ![deepcopy(doc)] = heap[doc]]
            /\ unit_i' = 1
            /\ pc' = "unit"
    /\ UNCHANGED <<now, uploaded, doc, part_idx, validated_codes,
                   extracted_units, part1_rows, confirm_p1, ticked, row_i, last, download, fin, fout>>

\* the unit's widgets up to the Part 1 confirmation
UnitInputs(prior_items, st, box) ==
    /\ UNCHANGED <<inserted, exported>>
    /\ pc = "unit"
    /\ part1_rows' = [i \in 1..Len(prior_items) |->
                        Part1Preview(prior_items[i], st.app_stmt,
                                     BulletsOf(st.bullets), now)]
    /\ confirm_p1' = box
    /\ ticked' = IF box THEN ticked \cup {<<validated_codes[unit_i], 1>>} ELSE ticked
    /\ row_i' = 1
    /\ pc' = "p1"
    /\ UNCHANGED <<now, uploaded, heap, doc, export_doc, part_idx, validated_codes,
                   unit_i, extracted_units, last, download, fin, fout>>

\* one entry of the write block: skipped, blocked or inserted into table t
Handle(part, values, box, warn) ==
    LET t == part_idx[part]
        table == heap[export_doc][t + 1]
        write == Confirmed(box) /\ RowComplete(values)
    IN  /\ last' = [part |-> part, unit |-> validated_codes[unit_i],
                    confirmed |-> box,
                    values |-> IF Confirmed(box) THEN values ELSE <<>>,
                    written |-> write,
                    warned |-> warn,
                    idx |-> IF write THEN first_empty_row_index(table) ELSE NoneIdx,
                    tbl |-> t, before |-> table]
        /\ heap' = IF write
                   THEN [heap EXCEPT ![export_doc][t + 1] = InsertRow(table, values)]
                   ELSE heap
        /\ inserted' = IF write
                       THEN Append(inserted, [tbl |-> t, values |-> values])
                       ELSE inserted

\* if confirm_p1: for row in part1_rows_preview: ... break / insert
WritePart1 ==
    /\ UNCHANGED exported
    /\ pc = "p1"
    /\ IF row_i <= Len(part1_rows)
       THEN LET row == part1_rows[row_i]
                values == <<row.col1, row.col2, row.col3, row.col4>>
            IN  /\ Handle(1, values, confirm_p1, row.warn)
                /\ IF Confirmed(confirm_p1) /\ RowComplete(values)
                   THEN row_i' = row_i + 1 /\ pc' = "p1"
                   ELSE row_i' = row_i /\ pc' = "p2"
       ELSE /\ pc' = "p2"
            /\ UNCHANGED <<heap, last, row_i, inserted>>
    /\ UNCHANGED <<now, uploaded, doc, export_doc, part_idx, validated_codes, unit_i,
                   extracted_units, part1_rows, confirm_p1, ticked, download, fin, fout>>

\* unit_meta = extracted_units.get(unit_code, {...}); the name as offered
UnitName(code) ==
    IF code \in DOMAIN extracted_units THEN WordsText(extracted_units[code].name)
    ELSE <<>>

\* if confirm_p2: ...
WritePart2(inp, box) ==
    /\ UNCHANGED exported
    /\ pc = "p2"
    /\ LET code == validated_codes[unit_i]
           resp_bullets == BulletsOf(inp.bullets)
           part2_text_c3 == IF resp_bullets # <<>>
                            THEN construct_part2_statement(code, UnitName(code),
                                                           resp_bullets)
                            ELSE <<>>
       IN  Handle(2, <<inp.title, inp.period, part2_text_c3, inp.eid>>, box, FALSE)
    /\ pc' = "p3"
    /\ ticked' = IF box THEN ticked \cup {<<validated_codes[unit_i], 2>>} ELSE ticked
    /\ part1_rows' = <<>>
    /\ confirm_p1' = FALSE
    /\ row_i' = 0
    /\ UNCHANGED <<now, uploaded, doc, export_doc, part_idx, validated_codes, unit_i,
                   extracted_units, download, fin, fout>>

\* if confirm_p3: ...; then the next unit of the loop
WritePart3(inp, box) ==
    /\ UNCHANGED exported
    /\ pc = "p3"
    /\ LET code == validated_codes[unit_i]
           pd_bullets == BulletsOf(inp.bullets)
           part3_text_c3 == IF pd_bullets # <<>>
                            THEN construct_part3_statement(code, UnitName(code),
                                                           pd_bullets)
                            ELSE <<>>
       IN  Handle(3, <<inp.title, inp.period, part3_text_c3, inp.eid>>, box,
                  box /\ YearWarned(inp.period, now))
    /\ IF unit_i < Len(validated_codes)
       THEN unit_i' = unit_i + 1 /\ pc' = "unit"
       ELSE unit_i' = unit_i /\ pc' = "final"
    /\ ticked' = IF box THEN ticked \cup {<<validated_codes[unit_i], 3>>} ELSE ticked
    /\ UNCHANGED <<now, uploaded, doc, export_doc, part_idx, validated_codes,
                   extracted_units, part1_rows, confirm_p1, row_i, download, fin, fout>>

\* the QA summary only displays; approve and download serialise export_doc
Finalise(approve) ==
    /\ UNCHANGED <<inserted, exported>>
    /\ pc = "final"
    /\ download' = IF approve THEN [ready |-> TRUE, tables |-> heap[export_doc]]
                   ELSE NoDownload
    /\ pc' = "done"
    /\ UNCHANGED <<now, uploaded, heap, doc, export_doc, part_idx, validated_codes,
                   unit_i, extracted_units, part1_rows, confirm_p1, ticked, row_i, last, fin, fout>>

\* any widget change reruns the script from the top
Rerun ==
    /\ pc \in {"done", "stopped"}
    /\ pc' = "start"
    /\ heap' = [r \in Refs |-> <<>>]
    /\ doc' = 0
    /\ export_doc' = 0
    /\ part_idx' = <<0, 0, 0>>
    /\ validated_codes' = <<>>
    /\ unit_i' = 0
    /\ extracted_units' = <<>>
    /\ part1_rows' = <<>>
    /\ confirm_p1' = FALSE
    /\ ticked' = {}
    /\ row_i' = 0
    /\ last' = NoLast
    /\ download' = NoDownload
    /\ inserted' = <<>>
    /\ exported' = (exported \/ (download.ready /\ inserted # <<>>))
    /\ UNCHANGED <<now, uploaded, fin, fout>>

\* the codes chosen in the multiselect and typed in by hand, each once (the
\* widgets of a unit are keyed by its code)
UnitChoices ==
    LET pool == DOMAIN extract_units_from_doc(uploaded.paras) \cup ManualCodes
    IN  {u \in SeqsUpTo(pool, Cardinality(pool)) :
            \A i, j \in 1..Len(u) : i # j => u[i] # u[j]}

\* options=[ti["index"] for ti in tables_info]
TableChoices == IF doc = 0 THEN {} ELSE 0..(Len(heap[doc]) - 1)

\* each disjunct names the position its action is taken at (the guard of
\* the action) before the inputs are drawn
Next ==
    \/ pc = "start" /\ \E t \in Templates : Upload(t)
    \/ Load
    \/ pc = "tables" /\ \E p1, p2, p3 \in TableChoices : SelectTables(p1, p2, p3)
    \/ pc = "units" /\ \E u \in UnitChoices : SelectUnits(u)
    \/ pc = "learner" /\ \E n \in LastNames : CopyDoc(n)
    \/ pc = "unit" /\ \E items \in SeqsUpTo(PriorItems, MaxPrior),
                          st \in StatementInputs, box \in BOOLEAN :
                          UnitInputs(items, st, box)
    \/ WritePart1
    \/ pc = "p2" /\ \E inp \in Part2Inputs, box \in BOOLEAN : WritePart2(inp, box)
    \/ pc = "p3" /\ \E inp \in Part3Inputs, box \in BOOLEAN : WritePart3(inp, box)
    \/ pc = "final" /\ \E approve \in BOOLEAN : Finalise(approve)
    \/ Rerun

Spec == Init /\ [][Next]_vars

(***************************************************************************)
(* The utilities on their own: each specification draws an input and       *)
(* applies the function once.                                              *)
(***************************************************************************)
NoPass ==
    /\ uploaded = NoUpload
    /\ heap = [r \in Refs |-> <<>>]
    /\ doc = 0
    /\ export_doc = 0
    /\ part_idx = <<0, 0, 0>>
    /\ validated_codes = <<>>
    /\ unit_i = 0
    /\ extracted_units = <<>>
    /\ part1_rows = <<>>
    /\ confirm_p1 = FALSE
    /\ ticked = {}
    /\ row_i = 0
    /\ last = NoLast
    /\ download = NoDownload
    /\ inserted = <<>>
    /\ exported = FALSE

\* every spelling of "pending" in upper and lower case
UpperChar(c) == IF \E u \in Upper : LowerOf[u] = c
                THEN CHOOSE u \in Upper : LowerOf[u] = c ELSE c

PendingSpellings ==
    {[i \in 1..Len(Pending) |-> IF i \in S THEN UpperChar(Pending[i])
                                ELSE LowerChar(Pending[i])] :
        S \in SUBSET (1..Len(Pending))}

MaskAlphabet == {"E", "7", "*", " "}

MaskTails == {<<>>, <<"1", "2">>, <<"1", "2", "*", "4">>, lower(Pending),
              <<"-", "9", "9", "8", "7", "6">>}

MaskInputs ==
    PendingSpellings
    \cup {x \o t : x \in SeqsUpTo(MaskAlphabet, MaxMaskLen), t \in MaskTails}

InitMask ==
    /\ NoPass
    /\ pc = "mask"
    /\ now = NowYear
    /\ fin \in MaskInputs
    /\ fout = <<>>

MaskApply ==
    /\ pc = "mask"
    /\ fout' = mask_evidence_id(fin)
    /\ pc' = "masked"
    /\ UNCHANGED <<now, fin>>
    /\ UNCHANGED appvars

SpecMask == InitMask /\ [][MaskApply]_vars

YearAlphabet == {"0", "1", "2", "8", "9", "a", "+", "_", " "}

YearInputs == SeqsUpTo(YearAlphabet, MaxYearLen)

InitYear ==
    /\ NoPass
    /\ pc = "year"
    /\ now = NowYear
    /\ fin \in YearInputs
    /\ fout = <<>>

YearApply ==
    /\ pc = "year"
    /\ fout' = validate_year(fin, now)
    /\ pc' = "validated"
    /\ UNCHANGED <<now, fin>>
    /\ UNCHANGED appvars

SpecYear == InitYear /\ [][YearApply]_vars

ParaKinds ==
    {<<>>,
     <<"BSBWHS311", "-", "Work", "Safely">>,
     <<"TAFE", "Unit", "BSBWHS311">>,
     <<"Application", "Statement">>,
     <<"PERFORMANCE", "EVIDENCE", "-", "required">>,
     <<"Performance", "Criteria">>,
     <<"-", "identify", "hazards">>,
     <<"apply", "safe", "work", "practices">>,
     <<"notes">>}

\* filler paragraphs pushed in after the first paragraph
Pads == {0, WindowBefore, WindowAfter}

Padded(core, pad) ==
    IF core = <<>> THEN <<>>
    ELSE <<Head(core)>> \o Repeat(<<"filler">>, pad) \o Tail(core)

ExtractInputs == {Padded(core, pad) : core \in SeqsUpTo(ParaKinds, MaxParas),
                                       pad \in Pads}

InitExtract ==
    /\ NoPass
    /\ pc = "extract"
    /\ now = NowYear
    /\ fin \in ExtractInputs
    /\ fout = <<>>

ExtractApply ==
    /\ pc = "extract"
    /\ fout' = extract_units_from_doc(fin)
    /\ pc' = "extracted"
    /\ UNCHANGED <<now, fin>>
    /\ UNCHANGED appvars

SpecExtract == InitExtract /\ [][ExtractApply]_vars

(***************************************************************************)
(* build_common_evidence.  The phrases tried are lower-case words of two   *)
(* or more letters separated by white space, so the tokens the vectorizer  *)
(* takes from a phrase are its words outside the English stop list.        *)
(* fit_transform raises ValueError when no document leaves a token.  The   *)
(* similarity of a target is 0 when it shares no token with a candidate    *)
(* and positive otherwise; how large the positive value is, is drawn with  *)
(* the input (sim), one value per phrase as equal phrases have equal rows. *)
(***************************************************************************)
StopWords == {"the", "of"}

Tokens(p) == {p[i] : i \in 1..Len(p)} \ ({" ", "\n", "\t"} \cup StopWords)

\* [normalise_space(x) for x in xs if normalise_space(x)]
NormalisedPhrases(xs) ==
    LET n == [i \in 1..Len(xs) |-> normalise_space(xs[i])]
    IN  SelectSeq(n, Truthy)

RECURSIVE Flatten(_)
Flatten(blocks) ==
    IF blocks = <<>> THEN <<>> ELSE Head(blocks) \o Flatten(Tail(blocks))

\* TfidfVectorizer(...).fit_transform(docs) finds an empty vocabulary
EmptyVocabulary(docs) == \A i \in 1..Len(docs) : Tokens(docs[i]) = {}

\* float(sim[i, argmax(sim[i])]) of target phrase t
BestScore(t, prior, sim) ==
    IF \E j \in 1..Len(prior) : Tokens(t) \cap Tokens(prior[j]) # {}
    THEN sim[t] ELSE 0

\* pairs.sort(key=lambda x: x[1], reverse=True): descending and stable
RECURSIVE SortPairs(_)
SortPairs(pairs) ==
    IF pairs = <<>> THEN <<>>
    ELSE LET s == SortPairs(SubSeq(pairs, 1, Len(pairs) - 1))
             x == pairs[Len(pairs)]
             k == Cardinality({i \in 1..Len(s) : s[i].score >= x.score})
         IN  SubSeq(s, 1, k) \o <<x>> \o SubSeq(s, k + 1, Len(s))

\* the selection loop over the sorted pairs
RECURSIVE SelectTargets(_, _, _)
SelectTargets(pairs, selected, max_items) ==
    IF pairs = <<>> THEN selected
    ELSE LET t == Head(pairs).t
             sel == IF \E i \in 1..Len(selected) : selected[i] = t
                    THEN selected ELSE Append(selected, t)
         IN  IF Len(sel) >= max_items THEN sel
             ELSE SelectTargets(Tail(pairs), sel, max_items)

build_common_evidence(target_evidence, prior_evidence_blocks, max_items, sim) ==
    LET target == NormalisedPhrases(target_evidence)
        prior == NormalisedPhrases(Flatten(prior_evidence_blocks))
        pairs == [i \in 1..Len(target) |->
                     [t |-> target[i], score |-> BestScore(target[i], prior, sim)]]
    IN  IF target = <<>> \/ prior = <<>> THEN [raised |-> FALSE, value |-> <<>>]
        ELSE IF EmptyVocabulary(target \o prior) THEN [raised |-> TRUE, value |-> <<>>]
        ELSE [raised |-> FALSE,
              value |-> SelectTargets(SortPairs(pairs), <<>>, max_items)]

RawPhrases == {<<"risk">>, <<" ", "risk">>, <<"audit">>, <<"the">>, <<" ">>}

\* lists of blocks; a block is the list of phrases of one prior item
PriorBlockInputs ==
    {<<>>,
     << <<>> >>,
     << <<(<<" ">>)>>, <<>> >>,
     << <<(<<"the">>)>> >>,
     << <<(<<"audit">>)>> >>,
     << <<(<<"the">>)>>, <<(<<" ", "risk", "\n", "audit">>)>> >>,
     << <<(<<"of">>), (<<"audit">>)>>, <<(<<"risk">>)>> >>}

ScoreLevels == {1, 2}

PhrasesOf(xs) == {normalise_space(xs[i]) : i \in 1..Len(xs)}

InitEvidence ==
    /\ NoPass
    /\ pc = "rank"
    /\ now = NowYear
    /\ \E t \in SeqsUpTo(RawPhrases, MaxTargets), p \in PriorBlockInputs,
          m \in 0..MaxItemsTried :
          \E s \in [PhrasesOf(t) -> ScoreLevels] :
              fin = [target |-> t, prior |-> p, max_items |-> m, sim |-> s]
    /\ fout = <<>>

EvidenceApply ==
    /\ pc = "rank"
    /\ fout' = build_common_evidence(fin.target, fin.prior, fin.max_items, fin.sim)
    /\ pc' = "ranked"
    /\ UNCHANGED <<now, fin>>
    /\ UNCHANGED appvars

SpecEvidence == InitEvidence /\ [][EvidenceApply]_vars

(***************************************************************************)
(* Properties of the write path (specification Spec).                      *)
(***************************************************************************)
\* the table the last entry was aimed at, as it is now
TableNow == heap[export_doc][last.tbl + 1]

\* data rows (python-docx indices) whose every cell is empty once normalised
BlankDataRows(t) ==
    {i \in 1..(Len(t) - 1) :
        \A j \in 1..Len(t[i + 1]) : normalise_space(t[i + 1][j]) = <<>>}

FilledDataRows(t) == (1..(Len(t) - 1)) \ BlankDataRows(t)

\* the python-docx index of the row an insert into t must take
TargetRow(t) == IF BlankDataRows(t) = {} THEN Len(t) ELSE SetMin(BlankDataRows(t))

\* C1: every insert writes the lowest-indexed data row (index >= 1) whose
\* cells are all empty after normalisation, or a newly appended row when
\* there is none; the header row (index 0) is never the target and keeps
\* its cells.
C1_LowestBlankRowOrAppend ==
    last.written =>
        LET before == last.before
            target == TargetRow(before)
        IN  /\ last.idx = IF BlankDataRows(before) = {} THEN NoneIdx ELSE target
            /\ Len(TableNow) = IF BlankDataRows(before) = {} THEN Len(before) + 1
                               ELSE Len(before)
            /\ target >= 1
            /\ \A j \in 1..4 : TableNow[target + 1][j] = last.values[j]
            /\ \A i \in 1..Len(before) : i # target + 1 => TableNow[i] = before[i]
            /\ TableNow[1] = before[1]

\* an insert went into a blank row that lies below a filled one
C1_Witness ==
    /\ last.written
    /\ last.idx = 2
    /\ 1 \in FilledDataRows(last.before)
    /\ TableNow[3][1] = last.values[1]

\* C2: no insert overwrites a data row that already holds text, and every
\* insert occupies one more row: after a first insert has filled the one
\* blank row of a table, the second is appended and the first row stays.
C2_InsertsTakeDistinctRows ==
    last.written =>
        /\ \A i \in FilledDataRows(last.before) : TableNow[i + 1] = last.before[i + 1]
        /\ Cardinality(FilledDataRows(TableNow))
             = Cardinality(FilledDataRows(last.before)) + 1

\* the template had one blank data row; it was filled and the next insert
\* was appended below it
C2_Witness ==
    /\ uploaded.tables = <<Tbl("named", 4, <<"blank">>)>>
    /\ last.written
    /\ last.idx = NoneIdx
    /\ Len(last.before) = 2
    /\ FilledDataRows(TableNow) = {1, 2}
    /\ TableNow[2] = last.before[2]

\* C3: the loaded document is never mutated by the write path: its tables
\* stay what was loaded, and every write goes to another document object,
\* the copy.
C3_LoadedDocumentUntouched ==
    /\ doc # 0 => heap[doc] = uploaded.tables
    /\ last.part # 0 => export_doc # doc

\* a pass whose three confirmed writes were exported
C3_Witness ==
    /\ pc = "done"
    /\ download.ready
    /\ Cardinality(ticked) = 3
    /\ last.written
    /\ \E t \in 1..Len(heap[doc]) :
          Len(download.tables[t]) > Len(heap[doc][t]) + 1

\* the row the last insert wrote, as it stands in the table
WrittenRow == TableNow[TargetRow(last.before) + 1]

\* C4: every inserted row has its four destination columns non-empty as
\* text after normalisation.
C4_WrittenRowsPopulated ==
    last.written => \A j \in 1..4 : normalise_space(WrittenRow[j]) # <<>>

\* the year of the last entry fails validation and is not the sentinel
YearInvalid(y) ==
    /\ y # <<>>
    /\ lower(y) # <<"p", "e", "n", "d", "i", "n", "g">>
    /\ ~(/\ Len(y) = 4
         /\ \A i \in 1..4 : y[i] \in Digits
         /\ MinYear <= DigitsValue(y, 0)
         /\ DigitsValue(y, 0) <= now)

\* C5 as stated: a confirmed Part 1 or Part 3 entry whose year fails
\* validation is not written in that pass.
C5_InvalidYearBlocksWrite ==
    (last.part \in {1, 3} /\ last.confirmed /\ YearInvalid(last.values[2]))
        => ~last.written

\* C5 as amended: a confirmed entry with an empty column is not written and
\* leaves its table as it was; a confirmed entry that the write block
\* examines with four non-empty columns is written whatever its year; a
\* Part 1 or Part 3 year that fails validation only draws a warning.
C5_EmptyColumnBlocksYearOnlyWarns ==
    last.confirmed =>
        /\ (\E j \in 1..4 : last.values[j] = <<>>)
              => (~last.written /\ TableNow = last.before)
        /\ (\A j \in 1..4 : last.values[j] # <<>>)
              => (last.written /\ TableNow # last.before)
        /\ (last.part \in {1, 3} /\ YearInvalid(last.values[2])) => last.warned

\* a row with an invalid year was written, with a warning
C5_Witness ==
    /\ last.part = 3
    /\ last.written
    /\ last.warned
    /\ WrittenRow[2] = Y1899

\* C6: a table of the export copy differs from the loaded one only if a
\* confirmation of a part aimed at it was ticked in this pass, an entry is
\* written only under its own ticked confirmation, and with nothing ticked
\* the copy equals the loaded template.
C6_WritesNeedConfirmation ==
    /\ last.written => (last.confirmed /\ <<last.unit, last.part>> \in ticked)
    /\ export_doc # 0 =>
          \A t \in 1..Len(heap[doc]) :
              heap[export_doc][t] # heap[doc][t]
                  => \E c \in ticked : part_idx[c[2]] = t - 1
    /\ (export_doc # 0 /\ ticked = {}) => heap[export_doc] = heap[doc]

\* Part 2 was written while Part 1 and Part 3 stayed unticked
C6_Witness ==
    /\ pc = "final"
    /\ Cardinality(ticked) = 1
    /\ \E c \in ticked : c[2] = 2
    /\ heap[export_doc][part_idx[2] + 1] # heap[doc][part_idx[2] + 1]

\* C7: every table that receives a write has at least 4 columns, and a pass
\* in which a selected table has fewer stops before units are selected and
\* before the copy is made.
C7_DestinationsHaveFourColumns ==
    /\ last.written => n_cols(last.before) >= 4
    /\ (pc \notin {"start", "tables"} /\ heap[doc] # <<>>
        /\ \E k \in 1..3 : n_cols(heap[doc][part_idx[k] + 1]) < 4)
          => (pc = "stopped" /\ validated_codes = <<>> /\ export_doc = 0
              /\ last.part = 0)

\* the pass stopped on a 3-column Part 3 table though Part 1 had 4 columns
C7_Witness ==
    /\ pc = "stopped"
    /\ Len(heap[doc]) = 3
    /\ n_cols(heap[doc][part_idx[1] + 1]) = 4
    /\ n_cols(heap[doc][part_idx[3] + 1]) = 3
    /\ export_doc = 0

(***************************************************************************)
(* Properties of the utilities (SpecMask, SpecYear, SpecExtract).          *)
(***************************************************************************)
\* out is n mask characters followed by the last Len(inp) - n characters of inp
MaskedUpTo(inp, out, n) ==
    /\ Len(out) = Len(inp)
    /\ \A i \in 1..Len(inp) : out[i] = IF i <= n THEN "*" ELSE inp[i]

\* C8: an empty value or "Pending" in any letter case gives exactly
\* "Pending"; any other value gives a result of the same length made of mask
\* characters followed by at most 4 trailing characters of the input, and
\* from length 5 on exactly the last 4 characters show.
C8_MaskContract ==
    pc = "masked" =>
        IF fin = <<>> \/ fin \in PendingSpellings
        THEN fout = <<"P", "e", "n", "d", "i", "n", "g">>
        ELSE /\ \E k \in 0..Min(4, Len(fin)) : MaskedUpTo(fin, fout, Len(fin) - k)
             /\ Len(fin) >= 5 => MaskedUpTo(fin, fout, Len(fin) - 4)

\* a six-character identifier shows its last four characters only
C8_Witness ==
    /\ pc = "masked"
    /\ Len(fin) = 6
    /\ fin[1] = "E"
    /\ fout = <<"*", "*">> \o SubSeq(fin, 3, 6)

\* C9: validate_year returns true exactly for a string of exactly 4 digits
\* whose value lies between 1900 and the current year inclusive, false for
\* every other input, and never raises.
C9_YearContract ==
    pc = "validated" =>
        /\ ~fout.raised
        /\ fout.value <=>
              /\ Len(fin) = 4
              /\ \A i \in 1..4 : fin[i] \in Digits
              /\ LET v == 1000 * DigitVal(fin[1]) + 100 * DigitVal(fin[2])
                          + 10 * DigitVal(fin[3]) + DigitVal(fin[4])
                 IN  1900 <= v /\ v <= now

\* the current year itself is accepted
C9_Witness ==
    /\ pc = "validated"
    /\ fout.value
    /\ Len(fin) = 4
    /\ DigitsValue(fin, 0) = now

\* the code candidates of a document and the window of each
Candidates(ps) == {c \in CodeWords : \E i \in 1..Len(ps) : HasWord(ps[i], c)}

WindowFor(ps, c) ==
    LET paras == NonEmptyParas(ps)
        first == SetMin({i \in 1..Len(paras) : HasWord(paras[i], c)})
    IN  [i \in 1..(Min(Len(paras), first - 1 + WindowAfter)
                     - Max(0, first - 1 - WindowBefore)) |->
            paras[Max(0, first - 1 - WindowBefore) + i]]

HeadingAbsent(win, h) == ~\E i \in 1..Len(win) : StartsWithHeading(win[i], h)

\* the first line with heading h is followed, before any other heading
\* line, by a line that counts as content
Yields(win, h) ==
    \E i \in 1..Len(win) :
        /\ StartsWithHeading(win[i], h)
        /\ \A k \in 1..(i - 1) : ~StartsWithHeading(win[k], h)
        /\ \E j \in (i + 1)..Len(win) :
              /\ IsContent(win[j])
              /\ \A k \in (i + 1)..j : ~IsAnyHeading(win[k])

EvTarget == NormalisedPhrases(fin.target)

EvPrior == NormalisedPhrases(Flatten(fin.prior))

EvDistinct == {EvTarget[i] : i \in 1..Len(EvTarget)}

EvBest(t) == BestScore(t, EvPrior, fin.sim)

\* C11: the matcher returns a list (it does not raise) of normalised target
\* phrases, each at most once, at most max_items of them, in non-increasing
\* order of their best similarity; the list is empty when the targets or the
\* candidates are empty after normalisation, and otherwise its length is
\* min(max_items, number of distinct target phrases).
C11_EvidenceContract ==
    pc = "ranked" =>
        LET out == fout.value
        IN  /\ ~fout.raised
            /\ \A i \in 1..Len(out) : out[i] \in EvDistinct
            /\ \A i, j \in 1..Len(out) : i # j => out[i] # out[j]
            /\ Len(out) <= fin.max_items
            /\ \A i, j \in 1..Len(out) : i < j => EvBest(out[i]) >= EvBest(out[j])
            /\ (EvTarget = <<>> \/ EvPrior = <<>>) => out = <<>>
            /\ (EvTarget # <<>> /\ EvPrior # <<>>)
                   => Len(out) = Min(fin.max_items, Cardinality(EvDistinct))

(***************************************************************************)
(* Properties of a whole pass and of repeated passes (specification Spec). *)
(***************************************************************************)
Part1Values(i) ==
    <<part1_rows[i].col1, part1_rows[i].col2, part1_rows[i].col3, part1_rows[i].col4>>

CompleteRows == {i \in 1..Len(part1_rows) : RowComplete(Part1Values(i))}

\* C12: in a confirmed Part 1 write an incomplete row blocks only itself:
\* when the Part 1 loop of the unit is over, the Part 1 table has gained one
\* filled row for every complete row of the unit, also for those listed after
\* an incomplete one; and a confirmed Part 2 or Part 3 entry whose columns
\* pass the check is written whatever happened in Part 1.
C12_IncompleteRowBlocksOnlyItself ==
    /\ (pc = "p2" /\ unit_i = 1 /\ confirm_p1) =>
           Cardinality(FilledDataRows(heap[export_doc][part_idx[1] + 1]))
               = Cardinality(FilledDataRows(heap[doc][part_idx[1] + 1]))
                 + Cardinality(CompleteRows)
    /\ (last.part \in {2, 3} /\ last.confirmed /\ RowComplete(last.values))
           => last.written

\* the rows inserted into table k (python-docx index) in this pass, in order
InsertedInto(k) ==
    LET es == SelectSeq(inserted, LAMBDA e : e.tbl = k)
    IN  [i \in 1..Len(es) |-> es[i].values]

PutValues(row, values) ==
    [c \in 1..Len(row) |-> IF c <= Len(values) THEN values[c] ELSE row[c]]

\* template table t0 with the entries es in its blank data rows, lowest
\* first, and in rows added at the end once the blank rows are used up
ExpectedTable(t0, es) ==
    LET blanks == BlankDataRows(t0)
        rank(i) == Cardinality({b \in blanks : b <= i})
        added == Max(0, Len(es) - Cardinality(blanks))
    IN  [i \in 1..(Len(t0) + added) |->
            IF i > Len(t0)
            THEN PutValues([c \in 1..n_cols(t0) |-> <<>>],
                           es[Cardinality(blanks) + (i - Len(t0))])
            ELSE IF (i - 1) \in blanks /\ rank(i - 1) <= Len(es)
            THEN PutValues(t0[i], es[rank(i - 1)])
            ELSE t0[i]]

============================================================================
